---- MODULE Spec2Model ----
(***************************************************************************)
(* Helio Quickbooks API app (src/src/server.js): the OAuth credential      *)
(* lifecycle (load at start, callback exchange, refresh, fire-and-forget   *)
(* save), the refresh timer, the HTTP handlers and the paginated customer  *)
(* listing getAllCustomers.                                                *)
(*                                                                         *)
(* Time is counted in timer intervals (1800000 ms each), starting at 1.    *)
(* Tokens issued by the provider are numbered 1, 2, ...; 0 stands for the  *)
(* empty string '' of a field that is not set.                             *)
(***************************************************************************)
EXTENDS Integers, Sequences, FiniteSets, TLC

\* ---------------------------------------------------------------- bounds
MaxTime == 2        \* timer intervals the model follows
MaxIssued == 3      \* token pairs the provider issues
MaxReqs == 1        \* inbound HTTP requests
MaxLists == 2       \* getAllCustomers invocations
MaxPages == 4       \* outbound page requests one invocation may send
ExpiresIn == 1      \* lifetime the provider gives an access token, in intervals
MaxRuns == 2        \* starts of the host process

\* ------------------------------------------------------ program constants
PageSize == 1000    \* MAXRESULTS 1000 and the comparisons === 1000

\* customer data sets the remote API may hold
DataSizes == {0, 1, 999, 1000, 1001, 2000, 2001}

Realm == "realm1"

VARIABLES
  now,        \* Date.now(), in timer intervals
  alive,      \* the host process is running
  started,    \* the constructor has run
  loaded,     \* the constructor found a stored credential and loaded it
  token,      \* this.oauth.token, the in-memory credential
  file,       \* the document at os.tmpdir()/helio-qbo-token
  writes,     \* fs.writeFile operations in flight, each the text it writes
  issued,     \* number of token pairs the provider has issued
  refreshes,  \* refreshToken() calls awaiting this.oauth.refresh()
  exchanges,  \* intuitCallback calls awaiting this.oauth.createToken()
  http,       \* inbound requests whose handler awaits, and the responses sent on them
  nreq,       \* number of such requests received
  last,       \* the latest answer of a handler that does not await
  consent,    \* GET /authorize has handed out the consent URL
  lists,      \* getAllCustomers invocations
  nlist,      \* number of getAllCustomers invocations made
  nCustomers, \* number of Customer records the remote API holds
  emitted,    \* 'qbo:result:customers' events published
  unhandled,  \* owners of promise rejections nobody handled
  log,        \* messages given to the logger and to console.error
  calls,      \* the quickbooks call of each GET /company request
  prev,       \* the in-memory credential of the run before this one
  runs        \* number of process starts so far

vars == <<now, alive, started, loaded, token, file, writes, issued, refreshes,
          exchanges, http, nreq, last, consent, lists, nlist, nCustomers, emitted, unhandled, log,
          calls, prev, runs>>

credVars == <<token, writes>>
listVars == <<lists, nlist, emitted>>
syncVars == <<last, consent>>
restVars == <<calls, prev, runs>>

\* ------------------------------------------------------------- credential
\* new Token() of intuit-oauth with no parameters: every field empty
EmptyToken ==
  [realmId |-> "", access_token |-> 0, refresh_token |-> 0, expires_in |-> 0, createdAt |-> 0]

\* the token pair number k, issued at time t for realm r
IssuedToken(k, r, t) ==
  [realmId |-> r, access_token |-> k, refresh_token |-> k, expires_in |-> ExpiresIn,
   createdAt |-> t]

\* a document that leaves the realm id out
StringifyNoRealm(t) ==
  << <<"access_token", t.access_token>>,
     <<"refresh_token", t.refresh_token>>, <<"expires_in", t.expires_in>>,
     <<"createdAt", t.createdAt>> >>

\* JSON.stringify(token): the document as a list of key/value pairs
Stringify(t) ==
  << <<"realmId", t.realmId>>, <<"access_token", t.access_token>>,
     <<"refresh_token", t.refresh_token>>, <<"expires_in", t.expires_in>>,
     <<"createdAt", t.createdAt>> >>

\* the value of key k in a parsed document, or the default d when the key is absent
Lookup(text, k, d) ==
  IF \E i \in DOMAIN text : text[i][1] = k
  THEN (text[CHOOSE i \in DOMAIN text : text[i][1] = k])[2]
  ELSE d

\* JSON.parse(text) of a document written by Stringify
Parse(text) ==
  [realmId |-> Lookup(text, "realmId", ""), access_token |-> Lookup(text, "access_token", 0),
   refresh_token |-> Lookup(text, "refresh_token", 0), expires_in |-> Lookup(text, "expires_in", 0),
   createdAt |-> Lookup(text, "createdAt", 0)]

\* this.oauth.setToken(params): new Token(params), every field params.x || default,
\* createdAt defaulting to Date.now()
NewToken(p) ==
  [realmId |-> p.realmId, access_token |-> p.access_token, refresh_token |-> p.refresh_token,
   expires_in |-> p.expires_in,
   createdAt |-> IF p.createdAt = 0 THEN now ELSE p.createdAt]

\* this.oauth.isAccessTokenValid(): the expiry lies in the future
isAccessTokenValid == token.createdAt + token.expires_in > now

\* a credential is held: the token carries an access token
Held == token.access_token # 0

\* the credential file
Missing == [kind |-> "missing", text |-> <<>>]
Garbage == [kind |-> "garbage", text |-> <<>>]
Json(t) == [kind |-> "json", text |-> Stringify(t)]

\* the credential a previous run of the process left in the file
StoredToken == IssuedToken(1, Realm, 1)

\* setAccessToken without the fs.writeFile
setAccessTokenNoSave(t) ==
  /\ token' = NewToken(t)
  /\ UNCHANGED writes

\* setAccessToken(token): replace the in-memory credential and issue the save
setAccessToken(t) ==
  /\ token' = NewToken(t)
  /\ writes' = writes \cup {Stringify(t)}

\* a promise rejected with no handler: older Node versions warn and go on,
\* newer ones end the process
Unhandled(owner) ==
  /\ unhandled' = unhandled \cup {owner}
  /\ alive' \in {TRUE, FALSE}

\* the call this.refreshToken(): this.oauth.refresh() starts (req tells the calls
\* apart: the request, or the time of the timer tick); with no refresh
\* token in memory (tok, the session's token at the call) the promise is
\* rejected without a request
StartRefresh(owner, req, tok) ==
  refreshes' = refreshes \cup {[owner |-> owner, req |-> req, sent |-> tok.refresh_token # 0]}

\* ------------------------------------------------------------ HTTP surface
NoBody == [kind |-> "none"]

\* a request: the response sent on it (status 0: none yet; sent counts the
\* responses), whether next(err) was called, and how the provider call it awaited
\* came out (outcome, and cred, the credential the provider issued)
NoRequest ==
  [route |-> "", status |-> 0, body |-> NoBody, sent |-> 0, nexted |-> FALSE,
   outcome |-> "", cred |-> EmptyToken]

\* the answer of a handler that does not await, with the access token the session
\* held and the time when it answered
NoAnswer == [route |-> "", status |-> 0, body |-> NoBody, id |-> 0, at |-> 0]
Answer(route, body) ==
  [route |-> route, status |-> 200, body |-> body, id |-> token.access_token, at |-> now]

Arrive(route) == [NoRequest EXCEPT !.route = route]

\* res.status(s).json(b) / res.send(b) / res.redirect(b)
Respond(r, s, b) == [http EXCEPT ![r].status = s, ![r].body = b, ![r].sent = @ + 1]

\* the provider call request r awaited resolved or was rejected
Outcome(h, r, o, c) == [h EXCEPT ![r].outcome = o, ![r].cred = c]

\* a quickbooks call not yet made, as getCompanyInfo makes one
NoCall == [pc |-> "new", sent |-> <<>>, err |-> "", faults |-> 0]

Init ==
  /\ now = 1
  /\ alive = TRUE
  /\ started = FALSE
  /\ loaded = FALSE
  /\ token = EmptyToken
  /\ file \in {Missing, Garbage, Json(StoredToken)}
  /\ writes = {}
  /\ issued = 1
  /\ refreshes = {}
  /\ exchanges = {}
  /\ http = [r \in 1..MaxReqs |-> NoRequest]
  /\ nreq = 0
  /\ last = NoAnswer
  /\ consent = FALSE
  /\ lists = <<>>
  /\ nlist = 0
  /\ nCustomers \in DataSizes
  /\ emitted = <<>>
  /\ unhandled = {}
  /\ log = {}
  /\ calls = [r \in 1..MaxReqs |-> NoCall]
  /\ prev = EmptyToken
  /\ runs = 1

\* a constructor that calls refreshToken() after the try block, loaded or not
StartupRefreshAlways ==
  /\ alive /\ ~started
  /\ started' = TRUE
  /\ loaded' = (file.kind = "json")
  /\ IF file.kind = "json"
     THEN /\ setAccessToken(Parse(file.text))
          /\ StartRefresh("startup", 0, NewToken(Parse(file.text)))
     ELSE /\ UNCHANGED credVars
          /\ StartRefresh("startup", 0, token)
  /\ UNCHANGED <<restVars, now, alive, file, issued, exchanges, http, nreq, syncVars, listVars,
                 nCustomers, unhandled, log>>

\* constructor, lines 66-79: load the stored credential, refresh it, arm the timer
Startup ==
  /\ alive /\ ~started
  /\ started' = TRUE
  /\ loaded' = (file.kind = "json")
  /\ IF file.kind = "json"
     THEN /\ setAccessToken(Parse(file.text))
          /\ StartRefresh("startup", 0, NewToken(Parse(file.text)))
     ELSE /\ UNCHANGED <<credVars, refreshes>>
  /\ UNCHANGED <<restVars, now, alive, file, issued, exchanges, http, nreq, syncVars, listVars,
                 nCustomers, unhandled, log>>

\* the setInterval callback, lines 77-79: one interval has passed
Tick ==
  /\ alive /\ started
  /\ now < MaxTime
  /\ now' = now + 1
  /\ StartRefresh("timer", now + 1, token)
  /\ UNCHANGED <<restVars, syncVars, alive, started, loaded, credVars, file, issued, exchanges, http, nreq,
                 listVars, nCustomers, unhandled, log>>

\* the fs.writeFile callback, lines 84-86: the write is done, or it failed and
\* the error goes to console.error
WriteDone(w) ==
  /\ alive /\ w \in writes
  /\ writes' = writes \ {w}
  /\ file' = [kind |-> "json", text |-> w]
  /\ UNCHANGED <<restVars, syncVars, now, alive, started, loaded, token, issued, refreshes, exchanges, http,
                 nreq, listVars, nCustomers, unhandled, log>>

WriteFail(w) ==
  /\ alive /\ w \in writes
  /\ writes' = writes \ {w}
  /\ log' = log \cup {"write error"}
  /\ UNCHANGED <<restVars, syncVars, now, alive, started, loaded, token, file, issued, refreshes, exchanges,
                 http, nreq, listVars, nCustomers, unhandled>>

\* a refresh that takes the new access token and keeps the old refresh token
RefreshedTokenMixed(k) ==
  [token EXCEPT !.access_token = k, !.expires_in = ExpiresIn, !.createdAt = now]

\* authResponse.token of a successful this.oauth.refresh(): the session's token
\* with the new pair number k
RefreshedToken(k) ==
  [token EXCEPT !.access_token = k, !.refresh_token = k, !.expires_in = ExpiresIn,
                !.createdAt = now]

\* doRefreshToken answering 200 whatever the refresh did
doRefreshTokenCatch200(r) ==
  Respond(r, 200, [kind |-> "error", error |-> "refresh failed"])

\* doRefreshToken, lines 177-180: the catch block answers 401 with the error text
doRefreshTokenCatch(r) ==
  Respond(r, 401, [kind |-> "error", error |-> "refresh failed"])

\* doRefreshToken, line 176: res.send(token)
doRefreshTokenSend(r, t) ==
  Respond(r, 200, [kind |-> "token", token |-> t])

\* refreshToken, lines 90-93, after this.oauth.refresh() resolved; for
\* /token/refresh also doRefreshToken line 176
RefreshOk(rf) ==
  /\ alive /\ rf \in refreshes
  /\ rf.sent
  /\ issued < MaxIssued
  /\ issued' = issued + 1
  /\ refreshes' = refreshes \ {rf}
  /\ setAccessToken(RefreshedToken(issued + 1))
  /\ http' = IF rf.owner = "http"
             THEN Outcome(doRefreshTokenSend(rf.req, RefreshedToken(issued + 1)), rf.req,
                          "resolved", RefreshedToken(issued + 1))
             ELSE http
  /\ UNCHANGED <<restVars, now, alive, started, loaded, file, exchanges, nreq, syncVars, listVars,
                 nCustomers, unhandled, log>>

\* refreshToken, line 90, when this.oauth.refresh() rejects (no refresh token, the
\* grant refused, or the network failed): the rejection leaves refreshToken; only
\* doRefreshToken catches it (and logs it), the timer callback and the constructor
\* do not
RefreshFail(rf) ==
  /\ alive /\ rf \in refreshes
  /\ refreshes' = refreshes \ {rf}
  /\ IF rf.owner = "http"
     THEN /\ http' = Outcome(doRefreshTokenCatch(rf.req), rf.req, "rejected", EmptyToken)
          /\ log' = log \cup {"refresh error"}
          /\ UNCHANGED <<alive, unhandled>>
     ELSE /\ Unhandled(rf.owner)
          /\ UNCHANGED <<http, log>>
  /\ UNCHANGED <<restVars, syncVars, now, started, loaded, credVars, file, issued, exchanges, nreq,
                 listVars, nCustomers>>

\* GET /token/refresh, doRefreshToken line 175
ReqTokenRefresh ==
  /\ alive /\ started /\ nreq < MaxReqs
  /\ nreq' = nreq + 1
  /\ http' = [http EXCEPT ![nreq + 1] = Arrive("/token/refresh")]
  /\ StartRefresh("http", nreq + 1, token)
  /\ UNCHANGED <<restVars, syncVars, now, alive, started, loaded, credVars, file, issued, exchanges, listVars, nCustomers,
                 unhandled, log>>

\* qbStatus, lines 142-147: the body it sends (oauthToken: a token is present)
qbStatus ==
  [kind |-> "status", appAuthorized |-> FALSE, oauthToken |-> FALSE]

\* GET /
ReqStatus ==
  /\ alive /\ started
  /\ last' = Answer("/", qbStatus)
  /\ UNCHANGED consent
  /\ UNCHANGED <<restVars, now, alive, started, loaded, credVars, file, issued, refreshes, exchanges,
                 http, nreq, listVars, nCustomers, unhandled, log>>

\* authorize, lines 149-154: the consent URL; nothing of it is kept
authorize == [kind |-> "uri"]

\* GET /authorize
ReqAuthorize ==
  /\ alive /\ started
  /\ last' = Answer("/authorize", authorize)
  /\ consent' = TRUE
  /\ UNCHANGED <<restVars, now, alive, started, loaded, credVars, file, issued, refreshes, exchanges,
                 http, nreq, listVars, nCustomers, unhandled, log>>

\* isTokenValid, lines 183-185: the body it sends
isTokenValid == [kind |-> "bool", value |-> isAccessTokenValid]

\* GET /token/valid
ReqTokenValid ==
  /\ alive /\ started
  /\ last' = Answer("/token/valid", isTokenValid)
  /\ UNCHANGED consent
  /\ UNCHANGED <<restVars, now, alive, started, loaded, credVars, file, issued, refreshes, exchanges,
                 http, nreq, listVars, nCustomers, unhandled, log>>

\* GET /callback, line 157: this.oauth.createToken(req.url) starts
ReqCallback ==
  /\ alive /\ started /\ nreq < MaxReqs
  /\ nreq' = nreq + 1
  /\ http' = [http EXCEPT ![nreq + 1] = Arrive("/callback")]
  /\ exchanges' = exchanges \cup {nreq + 1}
  /\ UNCHANGED <<restVars, syncVars, now, alive, started, loaded, credVars, file, issued, refreshes, listVars,
                 nCustomers, unhandled, log>>

\* intuitCallback's then-branch without the setAccessToken
intuitCallbackThenNoSet(r, t) ==
  /\ UNCHANGED credVars
  /\ http' = Outcome(Respond(r, 302, [kind |-> "redirect"]), r, "resolved", t)

\* intuitCallback, lines 158-162: the exchange gave the token t
intuitCallbackThen(r, t) ==
  /\ setAccessToken(t)
  /\ http' = Outcome(Respond(r, 302, [kind |-> "redirect"]), r, "resolved", t)

CallbackOk(r) ==
  /\ alive /\ r \in exchanges
  /\ issued < MaxIssued
  /\ issued' = issued + 1
  /\ exchanges' = exchanges \ {r}
  /\ intuitCallbackThen(r, IssuedToken(issued + 1, Realm, now))
  /\ UNCHANGED <<restVars, syncVars, now, alive, started, loaded, file, refreshes, nreq, listVars,
                 nCustomers, unhandled, log>>

\* intuitCallback's catch-branch redirecting all the same
intuitCallbackCatchRedirect(r) ==
  /\ log' = log \cup {"callback error"}
  /\ http' = Outcome(Respond(r, 302, [kind |-> "redirect"]), r, "rejected", EmptyToken)

\* intuitCallback, lines 163-166: the exchange failed; log it and next(err)
intuitCallbackCatch(r) ==
  /\ log' = log \cup {"callback error"}
  /\ http' = Outcome([http EXCEPT ![r].nexted = TRUE], r, "rejected", EmptyToken)

CallbackFail(r) ==
  /\ alive /\ r \in exchanges
  /\ exchanges' = exchanges \ {r}
  /\ intuitCallbackCatch(r)
  /\ UNCHANGED <<restVars, syncVars, now, alive, started, loaded, credVars, file, issued, refreshes,
                 nreq, listVars, nCustomers, unhandled>>

\* ------------------------------------------------------- customer listing
Min(a, b) == IF a < b THEN a ELSE b

\* the records the remote API holds are numbered 1..nCustomers; a query returns
\* at most MAXRESULTS 1000 of them from its start offset on (a query without
\* STARTPOSITION starts at the first record)
OffsetOf(q) == IF q.hasStart THEN q.start ELSE 0

PageAt(off) ==
  IF off >= nCustomers THEN <<>>
  ELSE [i \in 1..Min(PageSize, nCustomers - off) |-> off + i]

AllRecords == [i \in 1..nCustomers |-> i]

\* the query of line 124 and the query of line 131
FirstQuery == [hasStart |-> FALSE, start |-> 0]
NextQuery(maxResults) == [hasStart |-> TRUE, start |-> maxResults]

\* an invocation: its position (pc), the local customers and maxResults, the
\* queries sent, the error it threw, and how many of its queries the remote API
\* answered with a fault (faults) or with no record at all (empties)
NewList(owner, req) ==
  [owner |-> owner, req |-> req, pc |-> "new", customers |-> <<>>, maxResults |-> 0,
   sent |-> <<>>, err |-> "", faults |-> 0, empties |-> 0]

\* quickbooks with the check of line 99 left out: the request goes out whatever
\* the credential
quickbooksNoCheck(l, q) ==
  [l EXCEPT !.pc = "waiting",
            !.sent = Append(@, [query |-> q, auth |-> token.access_token])]

\* quickbooks holding on to the access token of the first request of its caller
quickbooksStale(l, q) ==
  IF token.realmId = ""
  THEN [l EXCEPT !.pc = "threw", !.err = "not connected"]
  ELSE [l EXCEPT !.pc = "waiting",
                 !.sent = Append(@, [query |-> q,
                                     auth |-> IF l.sent = <<>> THEN token.access_token
                                              ELSE l.sent[1].auth])]

\* quickbooks, lines 98-111, up to the await: without a realm id it throws,
\* otherwise the request goes out with the session's access token
quickbooks(l, q) ==
  IF token.realmId = ""
  THEN [l EXCEPT !.pc = "threw", !.err = "not connected"]
  ELSE [l EXCEPT !.pc = "waiting",
                 !.sent = Append(@, [query |-> q, auth |-> token.access_token])]

\* how a call to the remote API can go wrong: "fault", a 2xx answer whose body
\* carries the fault marker (line 113); "refused", an answer of another status,
\* its body carrying the fault marker, which makeApiCall rejects; "transport",
\* no answer at all (both caught at lines 115-117)
FaultKinds == {"fault", "refused", "transport"}

\* a quickbooks call that passes the fault on as if it were the answer
quickbooksFaultIgnored(l, kind) ==
  [l EXCEPT !.pc = "returned", !.faults = @ + 1]

\* a quickbooks call that sends its request again after a fault
quickbooksFaultRetry(l, kind) ==
  [l EXCEPT !.faults = @ + 1, !.sent = Append(@, @[Len(@)])]

\* quickbooks, lines 113-117: the call throws the error, and sends nothing more
quickbooksFault(l, kind) ==
  [l EXCEPT !.pc = "threw", !.err = kind, !.faults = @ + 1]

\* getAllCustomers, lines 125-137, from one answered query to the next await or
\* to the return; page is results.QueryResponse.Customer, absent (<<>>) when the
\* remote API found no record
getAllCustomersStep(l, page) ==
  IF page = <<>>
  THEN [l EXCEPT !.pc = "threw", !.err = "TypeError"]
  ELSE LET got == [l EXCEPT !.customers = @ \o page, !.maxResults = Len(page)]
       IN  IF got.maxResults = PageSize
           THEN quickbooks(got, NextQuery(got.maxResults))
           ELSE [got EXCEPT !.pc = "returned"]

\* an invocation is over
Finished(l) == l.pc \in {"returned", "threw"}

\* a listener that publishes what was gathered when the listing fails
SettlePartial(l) ==
  IF Finished(l)
  THEN IF l.owner = "http"
       THEN /\ http' = Respond(l.req, IF l.pc = "returned" THEN 200 ELSE 400,
                               [kind |-> "customers", customers |-> l.customers])
            /\ UNCHANGED <<emitted, alive, unhandled, log>>
       ELSE /\ emitted' = Append(emitted, [req |-> l.req, customers |-> l.customers])
            /\ UNCHANGED <<http, alive, unhandled, log>>
  ELSE UNCHANGED <<http, emitted, alive, unhandled, log>>

\* what the caller of getAllCustomers does with its outcome: getCustomers, lines
\* 202-208, answers the request; the 'qbo:get:customers' listener, lines 34-37,
\* emits the result and has no handler for a rejection
Settle(l) ==
  IF l.pc = "returned"
  THEN /\ IF l.owner = "http"
          THEN /\ http' = Respond(l.req, 200, [kind |-> "customers", customers |-> l.customers])
               /\ UNCHANGED emitted
          ELSE /\ emitted' = Append(emitted, [req |-> l.req, customers |-> l.customers])
               /\ UNCHANGED http
       /\ UNCHANGED <<alive, unhandled, log>>
  ELSE IF l.pc = "threw"
  THEN IF l.owner = "http"
       THEN /\ http' = Respond(l.req, 400, [kind |-> "error", error |-> l.err])
            /\ log' = log \cup {"list error"}
            /\ UNCHANGED <<alive, unhandled, emitted>>
       ELSE /\ Unhandled("event")
            /\ UNCHANGED <<http, emitted, log>>
  ELSE UNCHANGED <<http, emitted, alive, unhandled, log>>

\* getAllCustomers, line 124: a new invocation sends its first query
StartList(owner, req) ==
  LET l == quickbooks(NewList(owner, req), FirstQuery)
  IN  /\ nlist' = nlist + 1
      /\ lists' = Append(lists, l)
      /\ Settle(l)

\* GET /customers, getCustomers line 203
ReqCustomers ==
  /\ alive /\ started /\ nreq < MaxReqs /\ nlist < MaxLists
  /\ nreq' = nreq + 1
  /\ LET l == quickbooks(NewList("http", nreq + 1), FirstQuery)
     IN  /\ nlist' = nlist + 1
         /\ lists' = Append(lists, l)
         /\ IF l.pc = "threw"
            THEN /\ http' = [[http EXCEPT ![nreq + 1] = Arrive("/customers")]
                               EXCEPT ![nreq + 1].status = 400,
                                      ![nreq + 1].body = [kind |-> "error", error |-> l.err],
                                      ![nreq + 1].sent = 1]
                 /\ log' = log \cup {"list error"}
            ELSE /\ http' = [http EXCEPT ![nreq + 1] = Arrive("/customers")]
                 /\ UNCHANGED log
  /\ UNCHANGED <<restVars, syncVars, now, alive, started, loaded, credVars, file, issued, refreshes, exchanges,
                 nCustomers, emitted, unhandled>>

\* the 'qbo:get:customers' event, lines 34-35
EventGetCustomers ==
  /\ alive /\ started /\ nlist < MaxLists
  /\ StartList("event", nlist + 1)
  /\ UNCHANGED <<restVars, syncVars, now, started, loaded, credVars, file, issued, refreshes, exchanges, nreq,
                 nCustomers>>

\* the remote API answers the query in flight with a page of records
PageOk(i) ==
  /\ alive /\ i \in 1..nlist
  /\ lists[i].pc = "waiting"
  /\ LET q == lists[i].sent[Len(lists[i].sent)].query
         page == PageAt(OffsetOf(q))
         l == getAllCustomersStep(
                [lists[i] EXCEPT !.empties = IF page = <<>> THEN @ + 1 ELSE @], page)
     IN  /\ Len(l.sent) <= MaxPages
         /\ lists' = [lists EXCEPT ![i] = l]
         /\ Settle(l)
  /\ UNCHANGED <<restVars, syncVars, now, started, loaded, credVars, file, issued, refreshes, exchanges, nreq, nlist,
                 nCustomers>>

\* the remote API answers with a fault, or the transport fails: quickbooks,
\* lines 113-117, throws and getAllCustomers ends with that error
PageFault(i, kind) ==
  /\ alive /\ i \in 1..nlist
  /\ lists[i].pc = "waiting"
  /\ LET l == quickbooksFault(lists[i], kind)
     IN  /\ Len(l.sent) <= MaxPages
         /\ lists' = [lists EXCEPT ![i] = l]
         /\ Settle(l)
  /\ UNCHANGED <<restVars, syncVars, now, started, loaded, credVars, file, issued, refreshes, exchanges, nreq, nlist,
                 nCustomers>>

\* ------------------------------------------------------------ GET /company
\* the one query of getCompanyInfo, lines 190-191
CompanyInfo == [hasStart |-> FALSE, start |-> 0]

\* getCompanyInfo, lines 194-198: the answer to the request once its call is over
getCompanyInfo(r, c) ==
  IF c.pc = "returned"
  THEN /\ http' = Respond(r, 200, [kind |-> "company"])
       /\ UNCHANGED log
  ELSE /\ http' = Respond(r, 400, [kind |-> "error", error |-> c.err])
       /\ log' = log \cup {"company error"}

\* GET /company, getCompanyInfo lines 188-192: one quickbooks call
ReqCompany ==
  /\ alive /\ started /\ nreq < MaxReqs
  /\ nreq' = nreq + 1
  /\ LET c == quickbooks(NoCall, CompanyInfo)
     IN  /\ calls' = [calls EXCEPT ![nreq + 1] = c]
         /\ IF c.pc = "threw"
            THEN /\ http' = [[http EXCEPT ![nreq + 1] = Arrive("/company")]
                               EXCEPT ![nreq + 1].status = 400,
                                      ![nreq + 1].body = [kind |-> "error", error |-> c.err],
                                      ![nreq + 1].sent = 1]
                 /\ log' = log \cup {"company error"}
            ELSE /\ http' = [http EXCEPT ![nreq + 1] = Arrive("/company")]
                 /\ UNCHANGED log
  /\ UNCHANGED <<prev, runs, syncVars, now, alive, started, loaded, credVars, file, issued,
                 refreshes, exchanges, listVars, nCustomers, unhandled>>

\* the remote API answers the company query: quickbooks returns the body, line 114
CompanyOk(r) ==
  /\ alive /\ r \in 1..nreq
  /\ calls[r].pc = "waiting"
  /\ LET c == [calls[r] EXCEPT !.pc = "returned"]
     IN  /\ calls' = [calls EXCEPT ![r] = c]
         /\ getCompanyInfo(r, c)
  /\ UNCHANGED <<prev, runs, syncVars, now, alive, started, loaded, credVars, file, issued,
                 refreshes, exchanges, listVars, nreq, nCustomers, unhandled>>

\* the remote API answers the company query with a fault, or the transport fails
CompanyFault(r, kind) ==
  /\ alive /\ r \in 1..nreq
  /\ calls[r].pc = "waiting"
  /\ LET c == quickbooksFault(calls[r], kind)
     IN  /\ Len(c.sent) <= MaxPages
         /\ calls' = [calls EXCEPT ![r] = c]
         /\ getCompanyInfo(r, c)
  /\ UNCHANGED <<prev, runs, syncVars, now, alive, started, loaded, credVars, file, issued,
                 refreshes, exchanges, listVars, nreq, nCustomers, unhandled>>

\* ------------------------------------------------------------ restart
\* the host process ends and a new one runs the constructor, lines 12-32: what
\* the old process held in memory and had in flight is gone, the credential file
\* stays (a write cut short may leave it unreadable)
Restart ==
  /\ started /\ runs < MaxRuns
  /\ runs' = runs + 1
  /\ prev' = token
  /\ alive' = TRUE /\ started' = FALSE /\ loaded' = FALSE
  /\ token' = EmptyToken /\ writes' = {}
  /\ file' \in (IF writes = {} THEN {file} ELSE {file, Garbage})
  /\ refreshes' = {} /\ exchanges' = {}
  /\ http' = [r \in 1..MaxReqs |-> NoRequest] /\ nreq' = 0
  /\ calls' = [r \in 1..MaxReqs |-> NoCall]
  /\ lists' = <<>> /\ nlist' = 0
  /\ unhandled' = {}
  /\ UNCHANGED <<now, issued, syncVars, nCustomers, emitted, log>>

\* ------------------------------------------------------------ the system
\* the credential lifecycle: start, timer, saves, refreshes, OAuth routes
NextAuth ==
  \/ Startup
  \/ Tick
  \/ \E w \in writes : WriteDone(w)
  \/ \E w \in writes : WriteFail(w)
  \/ \E rf \in refreshes : RefreshOk(rf)
  \/ \E rf \in refreshes : RefreshFail(rf)
  \/ ReqStatus
  \/ ReqAuthorize
  \/ ReqCallback
  \/ \E r \in exchanges : CallbackOk(r)
  \/ \E r \in exchanges : CallbackFail(r)
  \/ ReqTokenRefresh
  \/ ReqTokenValid

\* the customer listing: start, GET /customers, the event bridge, the pages
NextList ==
  \/ Startup
  \/ ReqCustomers
  \/ EventGetCustomers
  \/ \E i \in 1..MaxLists : PageOk(i)
  \/ \E i \in 1..MaxLists, kind \in FaultKinds : PageFault(i, kind)

\* the credential lifecycle alone, the remote data set being of no account
InitAuth == Init /\ nCustomers = 0

SpecAuth == InitAuth /\ [][NextAuth]_vars

\* the customer listing alone, over every data set
SpecList == Init /\ [][NextList]_vars

\* the gateway: the routes that call the remote API, while the refresh begun at
\* start and its save complete
NextGate ==
  \/ Startup
  \/ \E rf \in refreshes : RefreshOk(rf)
  \/ \E rf \in refreshes : RefreshFail(rf)
  \/ \E w \in writes : WriteDone(w)
  \/ ReqCustomers
  \/ \E i \in 1..MaxLists : PageOk(i)
  \/ \E i \in 1..MaxLists, kind \in FaultKinds : PageFault(i, kind)
  \/ ReqCompany
  \/ \E r \in 1..MaxReqs : CompanyOk(r)
  \/ \E r \in 1..MaxReqs, kind \in FaultKinds : CompanyFault(r, kind)

\* a data set of one page and one of two pages
InitGate == Init /\ nCustomers \in {1, 1001}

SpecGate == InitGate /\ [][NextGate]_vars

\* the credential alone: start, timer, saves, refreshes, callback, /token/refresh
NextCred ==
  \/ Startup
  \/ Tick
  \/ \E w \in writes : WriteDone(w)
  \/ \E w \in writes : WriteFail(w)
  \/ \E rf \in refreshes : RefreshOk(rf)
  \/ \E rf \in refreshes : RefreshFail(rf)
  \/ ReqCallback
  \/ \E r \in exchanges : CallbackOk(r)
  \/ \E r \in exchanges : CallbackFail(r)
  \/ ReqTokenRefresh

SpecCred == InitAuth /\ [][NextCred]_vars

\* the session as a client sees it: consent, callback, /token/valid, while the
\* timer refreshes the credential
NextSession ==
  \/ Startup
  \/ Tick
  \/ \E w \in writes : WriteDone(w)
  \/ \E w \in writes : WriteFail(w)
  \/ \E rf \in refreshes : RefreshOk(rf)
  \/ \E rf \in refreshes : RefreshFail(rf)
  \/ ReqAuthorize
  \/ ReqCallback
  \/ \E r \in exchanges : CallbackOk(r)
  \/ \E r \in exchanges : CallbackFail(r)
  \/ ReqTokenValid

SpecSession == InitAuth /\ [][NextSession]_vars

\* the routes that answer after an outbound call, and /token/valid
NextServe ==
  \/ Startup
  \/ \E rf \in refreshes : RefreshOk(rf)
  \/ \E rf \in refreshes : RefreshFail(rf)
  \/ ReqTokenRefresh
  \/ ReqTokenValid
  \/ ReqCompany
  \/ \E r \in 1..MaxReqs : CompanyOk(r)
  \/ \E r \in 1..MaxReqs, kind \in FaultKinds : CompanyFault(r, kind)
  \/ ReqCustomers
  \/ \E i \in 1..MaxLists : PageOk(i)
  \/ \E i \in 1..MaxLists, kind \in FaultKinds : PageFault(i, kind)

SpecServe == Init /\ [][NextServe]_vars

\* the credential store over several runs of the process
NextStore ==
  \/ Startup
  \/ Restart
  \/ Tick
  \/ \E w \in writes : WriteDone(w)
  \/ \E w \in writes : WriteFail(w)
  \/ \E rf \in refreshes : RefreshOk(rf)
  \/ \E rf \in refreshes : RefreshFail(rf)
  \/ ReqCallback
  \/ \E r \in exchanges : CallbackOk(r)
  \/ \E r \in exchanges : CallbackFail(r)

SpecStore == InitAuth /\ [][NextStore]_vars

Next == NextAuth \/ NextList \/ NextGate \/ NextStore \/ NextCred \/ NextSession \/ NextServe

Spec == Init /\ [][Next]_vars

\* ---------------------------------------------------------------- claims
IsPrefix(a, b) == Len(a) <= Len(b) /\ \A k \in 1..Len(a) : a[k] = b[k]

\* C1: getAllCustomers terminates on every finite data set served by offset,
\* stopping after the first page of fewer than 1000 records. Of N records the
\* first such page is page N div 1000 + 1, so an invocation never sends more
\* queries than that.
C1_StopsAtShortPage ==
  \A i \in 1..nlist : Len(lists[i].sent) <= (nCustomers \div PageSize) + 1

\* C2: within one invocation the k-th query asks for offset (k-1)*1000, and every
\* invocation starts at offset 0.
C2_OffsetsIncrease ==
  \A i \in 1..nlist : \A k \in 1..Len(lists[i].sent) :
    OffsetOf(lists[i].sent[k].query) = (k - 1) * PageSize

\* C3: a listing that meets no fault returns exactly the N records of the remote
\* data set, in order, none twice and none left out: what it has gathered is
\* always a prefix of the data set, and when it ends it has returned all of it.
C3_ReturnsAllRecords ==
  \A i \in 1..nlist :
    (lists[i].faults = 0 /\ lists[i].err # "not connected") =>
      /\ IsPrefix(lists[i].customers, AllRecords)
      /\ Finished(lists[i]) =>
           (lists[i].pc = "returned" /\ lists[i].customers = AllRecords)

\* C4: a page without any record (an empty data set, or the page after an exact
\* multiple of 1000) ends the listing with the records gathered so far and raises
\* no error.
C4_EmptyPageReturns ==
  \A i \in 1..nlist :
    (lists[i].empties > 0 /\ lists[i].faults = 0) =>
      (lists[i].pc = "returned" /\ IsPrefix(lists[i].customers, AllRecords))

\* C5: a failed refresh started by the timer is absorbed in the timer callback: no
\* rejection of it is left unhandled (and so the process keeps running).
C5_TimerAbsorbsFailure == "timer" \notin unhandled

\* C6: every step that replaces the in-memory credential issues a save of that
\* same credential.
C6_ReplacementIsSaved ==
  [][token' # token => \E w \in writes' \ writes : Parse(w) = token']_vars

\* C6 witness: a refresh has replaced the credential and its save is in flight
C6_Witness ==
  /\ Held /\ token.access_token > 1
  /\ Stringify(token) \in writes
  /\ \E r \in 1..MaxReqs : http[r].route = "/token/refresh" /\ http[r].status = 200

\* C7: a refresh rejected during GET /token/refresh is answered once, with 401 and
\* the error text, never with 200.
C7_RejectedRefreshIs401 ==
  \A r \in 1..MaxReqs :
    (http[r].route = "/token/refresh" /\ http[r].outcome = "rejected") =>
      (http[r].status = 401 /\ http[r].body.kind = "error" /\ http[r].sent = 1)

\* C7 witness: a /token/refresh whose refresh was rejected has been answered
C7_Witness ==
  \E r \in 1..MaxReqs :
    http[r].route = "/token/refresh" /\ http[r].outcome = "rejected" /\ http[r].sent = 1

\* C8: when the exchange of GET /callback fails, the error goes to next(err), no
\* redirect is ever sent, and the step changes neither the in-memory credential
\* nor the file nor the saves in flight.
C8_FailedCallback ==
  [][\A r \in 1..MaxReqs :
       (http'[r].route = "/callback" /\ http'[r].outcome = "rejected") =>
         /\ http'[r].nexted /\ http'[r].sent = 0 /\ http'[r].status = 0
         /\ http[r].outcome # "rejected" =>
              (token' = token /\ file' = file /\ writes' = writes)]_vars

\* C8 witness: a failed callback with the session still unauthenticated
C8_Witness ==
  \E r \in 1..MaxReqs :
    /\ http[r].route = "/callback" /\ http[r].outcome = "rejected" /\ http[r].nexted
    /\ ~Held /\ file.kind = "missing"

\* the scenario of C9: after an unauthenticated start the callback r succeeded,
\* and its exchange is the only one of this run that did (so its credential is
\* the one in memory, and its save the only one issued)
CallbackHeld(r) ==
  /\ http[r].route = "/callback" /\ http[r].outcome = "resolved"
  /\ ~loaded
  /\ issued = http[r].cred.access_token /\ issued = 2
  /\ token = http[r].cred

C10_StatusReportsSession ==
  last.route = "/" =>
    /\ last.body.appAuthorized = (last.id # 0)
    /\ last.body.oauthToken = (last.id # 0)

\* C11: a quickbooks call made while the credential has no realm id sends no
\* request to the remote API and fails with the 'not connected' error, be it the
\* first query of a listing, a later page, or the company query; the request
\* that made it is answered with 400.
C11_NotConnectedFailsFast ==
  [][token.realmId = "" =>
       /\ \A i \in 1..nlist' :
            IF i <= nlist
            THEN lists'[i].sent = lists[i].sent
            ELSE /\ lists'[i].sent = <<>>
                 /\ lists'[i].pc = "threw" /\ lists'[i].err = "not connected"
                 /\ lists'[i].owner = "http" => http'[lists'[i].req].status = 400
       /\ \A r \in 1..MaxReqs :
            /\ calls'[r].sent = <<>>
            /\ calls'[r] # calls[r] =>
                 /\ calls'[r].pc = "threw" /\ calls'[r].err = "not connected"
                 /\ http'[r].status = 400]_vars

C11_Witness ==
  /\ token.realmId = ""
  /\ \E i \in 1..nlist :
       /\ lists[i].err = "not connected" /\ lists[i].sent = <<>>
       /\ http[lists[i].req].route = "/customers" /\ http[lists[i].req].status = 400

\* C12: a quickbooks call whose answer carries the fault marker throws, under a
\* 2xx status ("fault") as under any other ("refused"), and returns the body
\* only of an answer without the marker; a faulted /company or /customers
\* request is answered with 400 and the error, an unfaulted /company request
\* with 200 and the body.
C12_FaultRaisesError ==
  /\ \A i \in 1..nlist :
       /\ lists[i].faults > 0 =>
            /\ lists[i].pc = "threw" /\ lists[i].err \in FaultKinds
            /\ lists[i].owner = "http" =>
                 /\ http[lists[i].req].status = 400
                 /\ http[lists[i].req].body = [kind |-> "error", error |-> lists[i].err]
       /\ lists[i].pc = "returned" => lists[i].faults = 0
  /\ \A r \in 1..nreq :
       /\ calls[r].faults > 0 =>
            /\ calls[r].pc = "threw" /\ calls[r].err \in FaultKinds
            /\ http[r].status = 400
            /\ http[r].body = [kind |-> "error", error |-> calls[r].err]
       /\ calls[r].pc = "returned" =>
            /\ calls[r].faults = 0
            /\ http[r].status = 200 /\ http[r].body = [kind |-> "company"]

C12_Witness ==
  \E r \in 1..nreq :
    /\ http[r].route = "/company" /\ calls[r].err = "fault"
    /\ Len(calls[r].sent) = 1 /\ http[r].status = 400

\* C13: a quickbooks call sends one request at most. The step in which a call
\* meets a fault or a transport error sends nothing and ends the call, and the
\* listing with it, with that error; nothing of that listing or call changes
\* afterwards, and its request is answered with the error, not with the
\* records gathered so far.
C13_FaultEndsCall ==
  [][/\ \A i \in 1..nlist :
          /\ Len(lists'[i].sent) <= Len(lists[i].sent) + 1
          /\ lists[i].faults > 0 => lists'[i] = lists[i]
          /\ lists'[i].faults > lists[i].faults =>
               /\ lists'[i].sent = lists[i].sent
               /\ lists'[i].customers = lists[i].customers
               /\ lists'[i].pc = "threw" /\ lists'[i].err \in FaultKinds
               /\ lists'[i].owner = "http" =>
                    http'[lists'[i].req].body = [kind |-> "error", error |-> lists'[i].err]
     /\ \A r \in 1..MaxReqs :
          /\ Len(calls'[r].sent) <= 1
          /\ calls[r].faults > 0 => calls'[r] = calls[r]
          /\ calls'[r].faults > calls[r].faults =>
               /\ calls'[r].sent = calls[r].sent
               /\ calls'[r].pc = "threw" /\ calls'[r].err \in FaultKinds]_vars

\* a fault on the second page of a listing
C13_Witness ==
  \E i \in 1..nlist :
    /\ lists[i].faults = 1 /\ Len(lists[i].sent) = 2 /\ lists[i].pc = "threw"
    /\ Len(lists[i].customers) = PageSize
    /\ http[lists[i].req].status = 400

\* C14: of the 'qbo:get:customers' events, each has one 'qbo:result:customers'
\* event at most, published once its listing has returned and carrying the whole
\* data set; a listing that failed has none. Several listings may be under way.
C14_OneResultPerEvent ==
  /\ \A k \in 1..Len(emitted) :
       /\ emitted[k].req \in 1..nlist
       /\ lists[emitted[k].req].owner = "event"
       /\ lists[emitted[k].req].pc = "returned"
       /\ emitted[k].customers = lists[emitted[k].req].customers
       /\ emitted[k].customers = AllRecords
       /\ \A m \in 1..Len(emitted) : emitted[m].req = emitted[k].req => m = k
  /\ \A i \in 1..nlist :
       lists[i].pc # "returned" => \A k \in 1..Len(emitted) : emitted[k].req # i

\* a later request event has its result while an earlier one is still listing
C14_Witness ==
  /\ Len(emitted) = 1
  /\ Len(emitted[1].customers) = 1001
  /\ \E i \in 1..nlist :
       /\ i < emitted[1].req
       /\ lists[i].owner = "event" /\ lists[i].pc = "waiting"

\* C15: when the constructor finds no credential file, or one that does not
\* parse, it raises and logs no error: the in-memory credential stays empty,
\* nothing is saved, no refresh is begun by the constructor, and the constructor
\* completes, after which the routes answer and the refresh timer runs.
C15_AbsentLoadIsQuiet ==
  /\ [][(~started /\ started' /\ file.kind # "json") =>
          /\ token' = EmptyToken /\ ~loaded'
          /\ writes' = writes /\ refreshes' = refreshes
          /\ alive' /\ unhandled' = unhandled /\ log' = log]_vars
  /\ []((started /\ alive /\ now < MaxTime) => ENABLED Tick)
  /\ []((started /\ alive) => ENABLED ReqTokenValid)

\* the constructor has completed on a file that does not parse
C15_Witness ==
  /\ started /\ alive /\ file.kind = "garbage"
  /\ now = 1 /\ token = EmptyToken /\ refreshes = {}

\* C16: when the process starts on the file that the save of the credential held
\* at the end of the run before has written, no later save having replaced it,
\* the credential it loads equals that credential in every field.
C16_RoundTrip ==
  [][(~started /\ started' /\ runs > 1 /\ file = Json(prev)) =>
       /\ loaded'
       /\ token'.access_token = prev.access_token
       /\ token'.refresh_token = prev.refresh_token
       /\ token'.realmId = prev.realmId
       /\ token'.expires_in = prev.expires_in
       /\ token'.createdAt = prev.createdAt]_vars

\* the second run has loaded the credential a callback of the first run saved,
\* one interval after it was issued
C16_Witness ==
  /\ runs = 2 /\ started /\ loaded
  /\ file = Json(prev)
  /\ token = prev /\ token.access_token = 2
  /\ now > token.createdAt

\* C17: the in-memory credential is empty or whole: access token and refresh
\* token of one pair the provider issued, with the realm, the lifetime and an
\* issue time. It changes only when the constructor loads the file or an exchange
\* (callback or refresh) succeeds, and the exchange that succeeds puts its own
\* pair in memory, so of two refreshes under way the later to complete is the
\* one in memory.
C17_OneWholeCredential ==
  /\ [](\/ token = EmptyToken
        \/ /\ token.access_token \in 1..issued
           /\ token.refresh_token = token.access_token
           /\ token.realmId = Realm /\ token.expires_in = ExpiresIn
           /\ token.createdAt \in 1..now)
  /\ [][/\ issued' # issued =>
            token' = IssuedToken(issued', Realm, now)
        /\ token' # token =>
            (issued' # issued \/ (~started /\ started'))]_vars

\* the refresh begun at start and a /token/refresh were under way together; the
\* latter got pair 2, the former completed after it with pair 3
C17_Witness ==
  /\ now = 1 /\ loaded /\ refreshes = {}
  /\ token = IssuedToken(3, Realm, 1)
  /\ \E r \in 1..nreq :
       /\ http[r].route = "/token/refresh" /\ http[r].outcome = "resolved"
       /\ http[r].cred.access_token = 2

\* C18: a step of a listing or of a company call, whether it sends, gathers,
\* returns or throws, leaves the in-memory credential, the saves in flight and
\* the credential file as they are; and a request that goes out carries the
\* access token in memory at that step, so that a page requested after a refresh
\* has completed carries the new one.
C18_GatewayReadsCredential ==
  [][/\ (lists' # lists \/ calls' # calls) =>
          (token' = token /\ writes' = writes /\ file' = file)
     /\ \A i \in 1..nlist' :
          Len(lists'[i].sent) > (IF i <= nlist THEN Len(lists[i].sent) ELSE 0) =>
            lists'[i].sent[Len(lists'[i].sent)].auth = token.access_token
     /\ \A r \in 1..MaxReqs :
          Len(calls'[r].sent) > Len(calls[r].sent) =>
            calls'[r].sent[Len(calls'[r].sent)].auth = token.access_token]_vars

\* a listing of two pages, the refresh begun at start completing between them
C18_Witness ==
  \E i \in 1..nlist :
    /\ lists[i].pc = "returned" /\ Len(lists[i].sent) = 2
    /\ lists[i].sent[1].auth = 1 /\ lists[i].sent[2].auth = 2
    /\ token.access_token = 2
    /\ http[lists[i].req].status = 200

\* C19: whenever the app holds a credential, no save is in flight and no write
\* has failed, the credential file holds the in-memory credential, in whatever
\* order the writes of two replacements completed.
C19_StoreConverges ==
  (started /\ token # EmptyToken /\ writes = {} /\ "write error" \notin log) =>
    file = Json(token)

\* C20: a request to /token/refresh, /token/valid, /company or /customers gets
\* one response and no more. /token/valid answers at once. On the other routes,
\* as long as the response has not gone out, it is still to come: the process
\* runs and the handler waits for an outbound call, which, for a listing, is not
\* a query it has sent before (the remote data being the same, the same query
\* would bring the same answer and the same query again, without end).
C20_EveryRequestAnswered ==
  /\ last.route = "/token/valid" => last.status = 200
  /\ \A r \in 1..nreq :
       /\ http[r].sent <= 1
       /\ http[r].sent = 0 =>
            /\ alive
            /\ \/ \E rf \in refreshes : rf.owner = "http" /\ rf.req = r
               \/ calls[r].pc = "waiting"
               \/ \E i \in 1..nlist :
                    /\ lists[i].owner = "http" /\ lists[i].req = r
                    /\ lists[i].pc = "waiting"
                    /\ \A j, k \in 1..Len(lists[i].sent) :
                         lists[i].sent[j].query = lists[i].sent[k].query => j = k

====
